---- MODULE Spec2Model ----
(***************************************************************************)
(* Shadow Swap: the two-peer state synchronisation core of src/main.rs.    *)
(*                                                                         *)
(* Units.  The program computes in f32 pixels and f32 seconds.  The model  *)
(* is fixed point: lengths are integers in tenths of a pixel, times are    *)
(* integers in hundredths of a second (10 ms).  With these units           *)
(*   PLAYER_SPEED        200 px/s  = 20 tenths per 10 ms,                  *)
(*   INTERPOLATION_SPEED  10 px/s  =  1 tenth  per 10 ms,                  *)
(*   the 0.1 px dead zone of interpolate_players = 1 tenth,                *)
(*   the 0.1 s staleness threshold = 10, the 8 ms send period rounds up to *)
(*   1 (elapsed times are multiples of 10 ms, so ">= 8 ms" is ">= 10 ms"). *)
(* Distances are compared through their squares, which is exact.           *)
(***************************************************************************)
EXTENDS Integers, Sequences, FiniteSets, TLC

\* ---- program constants (main.rs:6-15, 249) ------------------------------
SCREEN_WIDTH == 12000
SCREEN_HEIGHT == 8000
PLAYER_SIZE == 200
PLAYER_SPEED == 20
INVERSE_DURATION == 500
INVERSE_COOLDOWN == 1000
TRAP_RADIUS == 500
WIN_SCORE == 3
INTERPOLATION_SPEED == 1
DEAD_ZONE == 1
STALE_AFTER == 10
SEND_PERIOD == 1
FLASH_TIME == 100

\* ---- bounds of the model ------------------------------------------------
\* Scores are i32 in the program; the model stops counting at MaxScore.
MaxScore == 4
\* Datagrams the network holds at once; a send into a full network is lost.
MaxInFlight == 1
\* The presentation clock game_time is free running; the model stops
\* counting it at MaxGameTime, and the frames of Spec run while it is below.
MaxGameTime == 480

Host == 0
Client == 1
Peers == {Host, Client}
Slots == {0, 1}

\* Frame times (last_frame.elapsed(), main.rs:431) the model draws from.
FrameTimes == {240}
\* Directional inputs of get_input (main.rs:367-389) the model draws from:
\* none, left, right, up, down.  Diagonals have irrational components.
Inputs == {<<0, 0>>, <<-1, 0>>}

Vec2(x, y) == [x |-> x, y |-> y]

Player(id, pos, shadow_pos, score, is_trapped) ==
  [id |-> id, pos |-> pos, shadow_pos |-> shadow_pos, score |-> score,
   is_trapped |-> is_trapped]

\* The layout GameState::new and reset_game write (main.rs:73-88, 311-319).
InitialPos(i) ==
  IF i = 0 THEN Vec2((SCREEN_WIDTH * 3) \div 10, SCREEN_HEIGHT \div 2)
           ELSE Vec2((SCREEN_WIDTH * 7) \div 10, SCREEN_HEIGHT \div 2)

InitialShadow(i) ==
  IF i = 0 THEN Vec2((SCREEN_WIDTH * 3) \div 10, SCREEN_HEIGHT \div 2 + 1000)
           ELSE Vec2((SCREEN_WIDTH * 7) \div 10, SCREEN_HEIGHT \div 2 - 1000)

InitialPlayer(i) == Player(i, InitialPos(i), InitialShadow(i), 0, FALSE)

\* GameState::new (main.rs:70-117).  last_send and last_network_update hold
\* the time elapsed since the Instant they store, capped where the program's
\* comparisons no longer tell values apart.
NewGameState(is_host) ==
  [players |-> [i \in Slots |-> InitialPlayer(i)],
   is_host |-> is_host,
   player_id |-> IF is_host THEN 0 ELSE 1,
   last_send |-> 0,
   client_addr |-> "none",
   inverse_active |-> FALSE,
   inverse_timer |-> 0,
   inverse_cooldown |-> 0,
   trap_flash_timer |-> [i \in Slots |-> 0],
   game_time |-> 0,
   last_network_update |-> [i \in Slots |-> 0],
   network_players |-> [i \in Slots |-> InitialPlayer(i)]]

Min(a, b) == IF a < b THEN a ELSE b
Max(a, b) == IF a > b THEN a ELSE b

\* Squared Euclidean distance: dx * dx + dy * dy (main.rs:267-269, 347-349).
Dist2(a, b) == (a.x - b.x) * (a.x - b.x) + (a.y - b.y) * (a.y - b.y)

RECURSIVE SqrtSearch(_, _, _)
SqrtSearch(n, lo, hi) ==
  IF lo >= hi THEN lo
  ELSE LET mid == (lo + hi + 1) \div 2
       IN IF mid * mid <= n THEN SqrtSearch(n, mid, hi)
                            ELSE SqrtSearch(n, lo, mid - 1)

\* f32::sqrt, rounded down to the fixed-point grid.
Sqrt(n) == SqrtSearch(n, 0, SCREEN_WIDTH + SCREEN_HEIGHT)

\* Fixed-point quotient rounded toward zero.
TruncDiv(a, b) == IF a >= 0 THEN a \div b ELSE -((-a) \div b)


\* ---- datagrams ------------------------------------------------------------
\* enum Message (main.rs:44-50).
PlayerUpdate(player) == [type |-> "PlayerUpdate", player |-> player]
InverseControl(active, time_left) ==
  [type |-> "InverseControl", active |-> active, time_left |-> time_left]
TrapEvent(player_id) == [type |-> "TrapEvent", player_id |-> player_id]
GameReset == [type |-> "GameReset"]

Datagram(from, to, msg) == [from |-> from, to |-> to, msg |-> msg]

\* The local address of a peer's socket (main.rs:119-130).
AddrOf(g) == IF g.is_host THEN "host" ELSE "client"

\* send_message (main.rs:132-144): the datagrams one call hands to the
\* socket.  The host sends to client_addr, and nothing while it is unknown;
\* the client sends to the address it connected to.
send_message(g, msg) ==
  IF g.is_host
    THEN IF g.client_addr # "none"
           THEN {Datagram("host", g.client_addr, msg)}
           ELSE {}
    ELSE {Datagram("client", "host", msg)}

\* ---- reset_game (main.rs:309-327) ----------------------------------------
\* reset_game without its last statement: the flash timers keep running.
reset_game_keeping_flash(g) ==
  [g EXCEPT !.players = [i \in Slots |->
                           [g.players[i] EXCEPT !.pos = InitialPos(i),
                                                !.shadow_pos = InitialShadow(i),
                                                !.score = 0,
                                                !.is_trapped = FALSE]],
            !.inverse_active = FALSE,
            !.inverse_timer = 0,
            !.inverse_cooldown = 0]

reset_game(g) ==
  [g EXCEPT !.players = [i \in Slots |->
                           [g.players[i] EXCEPT !.pos = InitialPos(i),
                                                !.shadow_pos = InitialShadow(i),
                                                !.score = 0,
                                                !.is_trapped = FALSE]],
            !.inverse_active = FALSE,
            !.inverse_timer = 0,
            !.inverse_cooldown = 0,
            !.trap_flash_timer = [i \in Slots |-> 0]]

\* ---- receive_messages, one datagram of the drain (main.rs:150-183) --------
\* The result is the state after the loop body and the should_reset flag.
\* learn_client_addr without the is_none test of main.rs:152: the host
\* follows the latest sender.
learn_client_addr_latest_sender(g, d) ==
  IF g.is_host THEN [g EXCEPT !.client_addr = d.from] ELSE g

learn_client_addr(g, d) ==
  IF g.is_host /\ g.client_addr = "none"
    THEN [g EXCEPT !.client_addr = d.from]
    ELSE g

\* on_player_update that keeps the newest record out of the displayed
\* slot while that slot already shows a received one.
on_player_update_first_writer_wins(g, player) ==
  LET pid == player.id
      g1 == [g EXCEPT !.network_players[pid] = player,
                      !.last_network_update[pid] = 0]
  IN IF pid # g.player_id /\ g.last_network_update[pid] > 0
       THEN [g1 EXCEPT !.players[pid] = player]
       ELSE g1

\* on_player_update without the test of main.rs:165: the displayed record
\* is overwritten for the own slot too.
on_player_update_into_own_slot(g, player) ==
  [g EXCEPT !.network_players[player.id] = player,
            !.last_network_update[player.id] = 0,
            !.players[player.id] = player]

on_player_update(g, player) ==
  LET pid == player.id
      g1 == [g EXCEPT !.network_players[pid] = player,
                      !.last_network_update[pid] = 0]
  IN IF pid # g.player_id THEN [g1 EXCEPT !.players[pid] = player] ELSE g1

on_inverse_control(g, msg) ==
  [g EXCEPT !.inverse_active = msg.active, !.inverse_timer = msg.time_left]

on_trap_event(g, pid) ==
  [g EXCEPT !.players[pid].is_trapped = TRUE,
            !.players[pid].score = g.players[pid].score + 1,
            !.trap_flash_timer[pid] = FLASH_TIME]

dispatch(g, msg) ==
  CASE msg.type = "PlayerUpdate" -> on_player_update(g, msg.player)
    [] msg.type = "InverseControl" -> on_inverse_control(g, msg)
    [] msg.type = "TrapEvent" -> on_trap_event(g, msg.player_id)
    [] OTHER -> g

receive_one(g, d, should_reset) ==
  [g |-> dispatch(learn_client_addr(g, d), d.msg),
   should_reset |-> should_reset \/ d.msg.type = "GameReset"]

\* ---- update_inverse_timer (main.rs:191-212) ------------------------------
\* The result is the new state and the datagrams sent.
\* update_inverse_timer without its two send_message calls (main.rs:201,
\* 208): the flips are not announced.
update_inverse_timer_silent(g, dt) ==
  IF ~g.is_host THEN [g |-> g, out |-> {}]
  ELSE IF g.inverse_active
    THEN LET t == g.inverse_timer - dt
         IN IF t <= 0
              THEN [g |-> [g EXCEPT !.inverse_timer = t,
                                    !.inverse_active = FALSE,
                                    !.inverse_cooldown = INVERSE_COOLDOWN],
                    out |-> {}]
              ELSE [g |-> [g EXCEPT !.inverse_timer = t], out |-> {}]
    ELSE LET c == g.inverse_cooldown - dt
         IN IF c <= 0
              THEN [g |-> [g EXCEPT !.inverse_active = TRUE,
                                    !.inverse_timer = INVERSE_DURATION,
                                    !.inverse_cooldown = INVERSE_COOLDOWN],
                    out |-> {}]
              ELSE [g |-> [g EXCEPT !.inverse_cooldown = c], out |-> {}]

\* update_inverse_timer that enters the cooldown with the duration of the
\* active window.
update_inverse_timer_short_cooldown(g, dt) ==
  IF ~g.is_host THEN [g |-> g, out |-> {}]
  ELSE IF g.inverse_active
    THEN LET t == g.inverse_timer - dt
         IN IF t <= 0
              THEN [g |-> [g EXCEPT !.inverse_timer = t,
                                    !.inverse_active = FALSE,
                                    !.inverse_cooldown = INVERSE_DURATION],
                    out |-> send_message(g, InverseControl(FALSE, 0))]
              ELSE [g |-> [g EXCEPT !.inverse_timer = t], out |-> {}]
    ELSE LET c == g.inverse_cooldown - dt
         IN IF c <= 0
              THEN [g |-> [g EXCEPT !.inverse_active = TRUE,
                                    !.inverse_timer = INVERSE_DURATION,
                                    !.inverse_cooldown = INVERSE_COOLDOWN],
                    out |-> send_message(g, InverseControl(TRUE, INVERSE_DURATION))]
              ELSE [g |-> [g EXCEPT !.inverse_cooldown = c], out |-> {}]

update_inverse_timer(g, dt) ==
  IF ~g.is_host THEN [g |-> g, out |-> {}]
  ELSE IF g.inverse_active
    THEN LET t == g.inverse_timer - dt
         IN IF t <= 0
              THEN [g |-> [g EXCEPT !.inverse_timer = t,
                                    !.inverse_active = FALSE,
                                    !.inverse_cooldown = INVERSE_COOLDOWN],
                    out |-> send_message(g, InverseControl(FALSE, 0))]
              ELSE [g |-> [g EXCEPT !.inverse_timer = t], out |-> {}]
    ELSE LET c == g.inverse_cooldown - dt
         IN IF c <= 0
              THEN [g |-> [g EXCEPT !.inverse_active = TRUE,
                                    !.inverse_timer = INVERSE_DURATION,
                                    !.inverse_cooldown = INVERSE_COOLDOWN],
                    out |-> send_message(g, InverseControl(TRUE, INVERSE_DURATION))]
              ELSE [g |-> [g EXCEPT !.inverse_cooldown = c], out |-> {}]

\* ---- update_player (main.rs:214-245) -------------------------------------
\* Variant of ClampX that holds a point at the right edge only.
ClampX_right_edge_only(x) == Min(x, SCREEN_WIDTH - PLAYER_SIZE)

ClampX(x) == Min(Max(x, PLAYER_SIZE), SCREEN_WIDTH - PLAYER_SIZE)
ClampY(y) == Min(Max(y, PLAYER_SIZE), SCREEN_HEIGHT - PLAYER_SIZE)

MoveTarget(target, input, dt) ==
  Vec2(ClampX(target.x + input[1] * PLAYER_SPEED * dt),
       ClampY(target.y + input[2] * PLAYER_SPEED * dt))

\* update_player without the two bounds lines (main.rs:227-228, 239-240).
update_player_unclamped(g, input, dt) ==
  LET other_id == 1 - g.player_id
      step == Vec2(input[1] * PLAYER_SPEED * dt, input[2] * PLAYER_SPEED * dt)
  IN IF ~g.inverse_active
       THEN LET target == Vec2(g.players[other_id].shadow_pos.x + step.x,
                               g.players[other_id].shadow_pos.y + step.y)
            IN [g EXCEPT !.players[other_id].shadow_pos = target,
                         !.network_players[other_id].shadow_pos = target]
       ELSE LET target == Vec2(g.players[other_id].pos.x + step.x,
                               g.players[other_id].pos.y + step.y)
            IN [g EXCEPT !.players[other_id].pos = target,
                         !.network_players[other_id].pos = target]

update_player(g, input, dt) ==
  LET other_id == 1 - g.player_id
      controlling_shadow == ~g.inverse_active
  IN IF controlling_shadow
       THEN LET target == MoveTarget(g.players[other_id].shadow_pos, input, dt)
            IN [g EXCEPT !.players[other_id].shadow_pos = target,
                         !.network_players[other_id].shadow_pos = target]
       ELSE LET target == MoveTarget(g.players[other_id].pos, input, dt)
            IN [g EXCEPT !.players[other_id].pos = target,
                         !.network_players[other_id].pos = target]

\* ---- interpolate_players (main.rs:247-299) -------------------------------
\* Approach without the test of main.rs:272: the point always travels
\* move_dist, also when less than that remains.
Approach_without_snap(current, network, dt) ==
  LET dx == network.x - current.x
      dy == network.y - current.y
      dist2 == dx * dx + dy * dy
      move_dist == INTERPOLATION_SPEED * dt
  IN IF dist2 > DEAD_ZONE * DEAD_ZONE
       THEN Vec2(current.x + TruncDiv(dx * move_dist, Sqrt(dist2)),
                 current.y + TruncDiv(dy * move_dist, Sqrt(dist2)))
       ELSE current

\* One point moved toward its network value (main.rs:267-278, 281-292).
Approach(current, network, dt) ==
  LET dx == network.x - current.x
      dy == network.y - current.y
      dist2 == dx * dx + dy * dy
      move_dist == INTERPOLATION_SPEED * dt
  IN IF dist2 > DEAD_ZONE * DEAD_ZONE
       THEN IF dist2 > move_dist * move_dist
              THEN Vec2(current.x + TruncDiv(dx * move_dist, Sqrt(dist2)),
                        current.y + TruncDiv(dy * move_dist, Sqrt(dist2)))
              ELSE network
       ELSE current

interpolate_slot(g, i, dt) ==
  IF g.last_network_update[i] > STALE_AFTER
    THEN [g EXCEPT !.players[i] = g.network_players[i]]
    ELSE LET network == g.network_players[i]
             current == g.players[i]
         IN [g EXCEPT !.players[i] =
               [current EXCEPT !.pos = Approach(current.pos, network.pos, dt),
                               !.shadow_pos = Approach(current.shadow_pos,
                                                       network.shadow_pos, dt),
                               !.score = network.score,
                               !.is_trapped = network.is_trapped]]

interpolate_players(g, dt) == interpolate_slot(g, 1 - g.player_id, dt)

\* ---- swap_with_shadow (main.rs:301-307) ----------------------------------
SwapPoints(p) == [p EXCEPT !.pos = p.shadow_pos, !.shadow_pos = p.pos]

\* swap_with_shadow without its last two lines (main.rs:305-306): the
\* network record of the own slot is not exchanged.
swap_with_shadow_displayed_only(g) ==
  [g EXCEPT !.players[g.player_id] = SwapPoints(g.players[g.player_id])]

swap_with_shadow(g) ==
  [g EXCEPT !.players[g.player_id] = SwapPoints(g.players[g.player_id]),
            !.network_players[g.player_id] =
               SwapPoints(g.network_players[g.player_id])]

\* ---- check_traps (main.rs:329-364) ---------------------------------------
decay_flash(g, dt) ==
  [g EXCEPT !.trap_flash_timer =
     [i \in Slots |-> IF g.trap_flash_timer[i] > 0
                        THEN g.trap_flash_timer[i] - dt
                        ELSE g.trap_flash_timer[i]]]

\* The squared distance check_traps measures for slot i (main.rs:342-349).
TrapDist2(g, i) == Dist2(g.players[i].pos, g.players[1 - i].shadow_pos)

\* trap_slot releasing at TRAP_RADIUS instead of twice TRAP_RADIUS.
trap_slot_without_hysteresis(g, i) ==
  LET dist2 == TrapDist2(g, i)
      enters == dist2 < TRAP_RADIUS * TRAP_RADIUS /\ ~g.players[i].is_trapped
      g1 == IF enters
              THEN [g EXCEPT !.players[i].is_trapped = TRUE,
                             !.players[i].score = g.players[i].score + 1,
                             !.trap_flash_timer[i] = FLASH_TIME]
              ELSE g
      g2 == IF g1.players[i].is_trapped /\ dist2 > TRAP_RADIUS * TRAP_RADIUS
              THEN [g1 EXCEPT !.players[i].is_trapped = FALSE]
              ELSE g1
  IN [g |-> g2,
      out |-> IF enters THEN send_message(g, TrapEvent(i)) ELSE {}]

\* One iteration of the second loop (main.rs:341-363).
trap_slot(g, i) ==
  LET dist2 == TrapDist2(g, i)
      enters == dist2 < TRAP_RADIUS * TRAP_RADIUS /\ ~g.players[i].is_trapped
      g1 == IF enters
              THEN [g EXCEPT !.players[i].is_trapped = TRUE,
                             !.players[i].score = g.players[i].score + 1,
                             !.trap_flash_timer[i] = FLASH_TIME]
              ELSE g
      g2 == IF g1.players[i].is_trapped
                 /\ dist2 > (TRAP_RADIUS * 2) * (TRAP_RADIUS * 2)
              THEN [g1 EXCEPT !.players[i].is_trapped = FALSE]
              ELSE g1
  IN [g |-> g2,
      out |-> IF enters THEN send_message(g, TrapEvent(i)) ELSE {}]

\* check_traps without the early return of main.rs:330-332.
check_traps_on_every_peer(g, dt) ==
  LET s0 == trap_slot(decay_flash(g, dt), 0)
      s1 == trap_slot(s0.g, 1)
  IN [g |-> s1.g, out |-> s0.out \cup s1.out]

check_traps(g, dt) ==
  IF ~g.is_host THEN [g |-> g, out |-> {}]
  ELSE LET s0 == trap_slot(decay_flash(g, dt), 0)
           s1 == trap_slot(s0.g, 1)
       IN [g |-> s1.g, out |-> s0.out \cup s1.out]

\* ---- the two peers and the network ---------------------------------------
\* game[p]: the GameState of peer p.  frame[p]: where peer p is in the body
\* of the frame loop of main (main.rs:430-488), with the loop's locals dt and
\* should_reset.  inflight: the datagrams the network holds.  sent[p]: the
\* datagrams peer p's latest step handed to its socket.
VARIABLES game, frame, inflight, sent

vars == <<game, frame, inflight, sent>>

PeerAddr(p) == AddrOf(game[p])

\* Elapsed times, capped where the comparisons of the program stop
\* distinguishing them (main.rs:257-258, 473).
Elapse(g, dt) ==
  [g EXCEPT !.last_send = Min(g.last_send + dt, SEND_PERIOD),
            !.last_network_update =
               [i \in Slots |-> Min(g.last_network_update[i] + dt, STALE_AFTER + 1)]]

\* Between GameState::new and the first frame the host sleeps one second
\* (main.rs:408) and the client reads the host's address from the terminal
\* (main.rs:413-418), so the Instants are stale when the loop starts.
StartState(p) == Elapse(NewGameState(p = Host), STALE_AFTER + 1)

Init ==
  /\ game = [p \in Peers |-> StartState(p)]
  /\ frame = [p \in Peers |-> [pc |-> "frame", dt |-> 0, should_reset |-> FALSE]]
  /\ inflight = {}
  /\ sent = [p \in Peers |-> {}]

\* UDP: of the datagrams handed to the socket any may be lost, at once or
\* later (a datagram lost in flight is one that was never kept), and the
\* network holds at most cap.
Transmit(out, cap) ==
  \E kept \in SUBSET out :
    /\ Cardinality(inflight \cup kept) <= cap
    /\ inflight' = inflight \cup kept

ScoresBounded(g) == \A i \in Slots : g.players[i].score <= MaxScore

Goto(p, pc) == frame' = [frame EXCEPT ![p].pc = pc]

Pc(p) == frame[p].pc
OwnSlot(p) == game[p].player_id
OtherSlot(p) == 1 - game[p].player_id

\* main.rs:431-432: dt is the time since the previous frame.
begin_frame(p, dt) ==
  /\ frame[p].pc = "frame"
  /\ game' = [game EXCEPT ![p] = Elapse(game[p], dt)]
  /\ frame' = [frame EXCEPT ![p] =
                 [pc |-> "receive", dt |-> dt, should_reset |-> FALSE]]
  /\ sent' = [sent EXCEPT ![p] = {}]
  /\ UNCHANGED inflight

FrameStart(p) ==
  \E dt \in FrameTimes :
    /\ game[p].game_time + dt <= MaxGameTime
    /\ begin_frame(p, dt)

\* main.rs:150-184: recv_from yields the pending datagram d.
receive(p, d) ==
  /\ frame[p].pc = "receive"
  /\ d.to = PeerAddr(p)
  /\ LET r == receive_one(game[p], d, frame[p].should_reset)
     IN /\ ScoresBounded(r.g)
        /\ game' = [game EXCEPT ![p] = r.g]
        /\ frame' = [frame EXCEPT ![p].should_reset = r.should_reset]
  /\ sent' = [sent EXCEPT ![p] = {}]

\* The network may deliver a datagram more than once (keep).
Receive(p) ==
  \E d \in inflight, keep \in BOOLEAN :
    /\ receive(p, d)
    /\ inflight' = IF keep THEN inflight ELSE inflight \ {d}

\* main.rs:186-188, 438: recv_from found nothing more; the deferred reset and
\* the presentation clock, which the model stops counting at horizon.
end_receive(g, should_reset, dt, horizon) ==
  LET g1 == IF should_reset THEN reset_game(g) ELSE g
  IN [g1 EXCEPT !.game_time = Min(g1.game_time + dt, horizon)]

\* main.rs:186-188, 438, 441
tick(p, cap) ==
  /\ frame[p].pc = "receive"
  /\ LET r == update_inverse_timer(
                end_receive(game[p], frame[p].should_reset, frame[p].dt,
                            MaxGameTime),
                frame[p].dt)
     IN /\ game' = [game EXCEPT ![p] = r.g]
        /\ sent' = [sent EXCEPT ![p] = r.out]
        /\ Transmit(r.out, cap)
  /\ Goto(p, "move")

Tick(p) == tick(p, MaxInFlight)

\* main.rs:447-452
apply_input(g, input, dt) ==
  IF input # <<0, 0>> THEN update_player(g, input, dt) ELSE g

\* main.rs:455-457
apply_swap(g, space_pressed) ==
  IF space_pressed THEN swap_with_shadow(g) ELSE g

\* main.rs:460
sync_own(g) == [g EXCEPT !.network_players[g.player_id] = g.players[g.player_id]]

\* main.rs:444-460: interpolation, this frame's input, swap, and the copy
\* of the own slot into network_players.
move_players(g, input, space_pressed, dt) ==
  sync_own(apply_swap(apply_input(interpolate_players(g, dt), input, dt),
                      space_pressed))

move(p, input, space_pressed) ==
  /\ frame[p].pc = "move"
  /\ game' = [game EXCEPT ![p] =
                move_players(game[p], input, space_pressed, frame[p].dt)]
  /\ Goto(p, "restart")
  /\ sent' = [sent EXCEPT ![p] = {}]
  /\ UNCHANGED inflight

Move(p) == \E input \in Inputs, space_pressed \in BOOLEAN : move(p, input, space_pressed)

\* main.rs:463
is_game_over(g) ==
  g.players[0].score >= WIN_SCORE \/ g.players[1].score >= WIN_SCORE

\* restart_game without the is_game_over test of main.rs:464.
restart_game_ungated(g, r_pressed) ==
  IF r_pressed
    THEN [g |-> reset_game(g), out |-> send_message(g, GameReset)]
    ELSE [g |-> g, out |-> {}]

\* main.rs:464-467
restart_game(g, r_pressed) ==
  IF r_pressed /\ is_game_over(g)
    THEN [g |-> reset_game(g), out |-> send_message(g, GameReset)]
    ELSE [g |-> g, out |-> {}]

restart(p, r_pressed, cap) ==
  /\ frame[p].pc = "restart"
  /\ LET r == restart_game(game[p], r_pressed)
     IN /\ game' = [game EXCEPT ![p] = r.g]
        /\ sent' = [sent EXCEPT ![p] = r.out]
        /\ Transmit(r.out, cap)
  /\ Goto(p, "check_traps")

Restart(p) == \E r_pressed \in BOOLEAN : restart(p, r_pressed, MaxInFlight)

\* main.rs:470
trap_check(p, cap) ==
  /\ frame[p].pc = "check_traps"
  /\ LET r == check_traps(game[p], frame[p].dt)
     IN /\ ScoresBounded(r.g)
        /\ game' = [game EXCEPT ![p] = r.g]
        /\ sent' = [sent EXCEPT ![p] = r.out]
        /\ Transmit(r.out, cap)
  /\ Goto(p, "send")

CheckTraps(p) == trap_check(p, MaxInFlight)

\* main.rs:473-488
periodic_send(g) ==
  IF g.last_send >= SEND_PERIOD
    THEN [g |-> [g EXCEPT !.last_send = 0],
          out |-> send_message(g, PlayerUpdate(g.network_players[g.player_id]))
                  \cup send_message(g, PlayerUpdate(g.network_players[1 - g.player_id]))
                  \cup (IF g.is_host
                          THEN send_message(g, InverseControl(g.inverse_active,
                                                              g.inverse_timer))
                          ELSE {})]
    ELSE [g |-> g, out |-> {}]

send(p, cap) ==
  /\ frame[p].pc = "send"
  /\ LET r == periodic_send(game[p])
     IN /\ game' = [game EXCEPT ![p] = r.g]
        /\ sent' = [sent EXCEPT ![p] = r.out]
        /\ Transmit(r.out, cap)
  /\ Goto(p, "frame")

Send(p) == send(p, MaxInFlight)

Next ==
  \/ \E p \in Peers : FrameStart(p)
  \/ \E p \in Peers : Receive(p)
  \/ \E p \in Peers : Tick(p)
  \/ \E p \in Peers : Move(p)
  \/ \E p \in Peers : Restart(p)
  \/ \E p \in Peers : CheckTraps(p)
  \/ \E p \in Peers : Send(p)

Spec == Init /\ [][Next]_vars

\* The same system on a network that holds one datagram more, with the
\* client's user idle until a restart.
NextWide ==
  \/ \E p \in Peers : FrameStart(p)
  \/ \E p \in Peers : Receive(p)
  \/ \E p \in Peers : tick(p, MaxInFlight + 1)
  \/ Move(Host)
  \/ move(Client, <<0, 0>>, FALSE)
  \/ \E p \in Peers, r_pressed \in BOOLEAN : restart(p, r_pressed, MaxInFlight + 1)
  \/ \E p \in Peers : trap_check(p, MaxInFlight + 1)
  \/ \E p \in Peers : send(p, MaxInFlight + 1)

SpecWide == Init /\ [][NextWide]_vars

\* ---- the host's trap detector on its own ----------------------------------
\* Frame times of the host's frames in SpecTraps.
TrapSteps == {5}
\* Distances from a body to the other slot's shadow the scenes start from:
\* inside TRAP_RADIUS, on it, between the two thresholds, on the outer one,
\* and one step beyond it; a frame of SpecTraps moves a point by 100.
TrapDistances == {400, 500, 600, 1000, 1100}
TrapScores == {0, 2}
TrapInputs == {<<0, 0>>, <<-1, 0>>, <<1, 0>>}
\* Frames of SpecTraps after the one the scene starts in.
MaxTrapFrames == 1

\* The host in the middle of a game, after the copy of main.rs:460: slot 0
\* where GameState::new put it, the body of slot 1 at distance d1 from the
\* shadow of slot 0 and the shadow of slot 1 at distance d0 from the body of
\* slot 0, where the host's input (main.rs:228-243) moved them while no
\* PlayerUpdate of the client arrived.
TrapScene(d0, d1, t, s, addr, active, dt) ==
  LET p0 == Player(0, InitialPos(0), InitialShadow(0), s[1], t[1])
      p1 == Player(1, Vec2(InitialShadow(0).x + d1, InitialShadow(0).y),
                      Vec2(InitialPos(0).x + d0, InitialPos(0).y), s[2], t[2])
      ps == [i \in Slots |-> IF i = 0 THEN p0 ELSE p1]
  IN [StartState(Host) EXCEPT
        !.players = ps,
        !.network_players = ps,
        !.client_addr = addr,
        !.inverse_active = active,
        !.inverse_timer = IF active THEN INVERSE_DURATION ELSE 0,
        !.inverse_cooldown = INVERSE_COOLDOWN,
        !.game_time = MaxGameTime - MaxTrapFrames * dt]

InitTraps ==
  /\ \E d0 \in TrapDistances, d1 \in TrapDistances,
        t \in BOOLEAN \X BOOLEAN, s \in TrapScores \X TrapScores,
        addr \in {"none", "client"}, active \in BOOLEAN, dt \in TrapSteps :
       \* Slot 1 is trapped or has scored only in a PlayerUpdate of the client.
       /\ addr = "none" => (~t[2] /\ s[2] = 0)
       /\ game = [p \in Peers |-> IF p = Host
                                    THEN TrapScene(d0, d1, t, s, addr, active, dt)
                                    ELSE StartState(Client)]
       /\ frame = [p \in Peers |->
                     [pc |-> IF p = Host THEN "check_traps" ELSE "frame",
                      dt |-> IF p = Host THEN dt ELSE 0,
                      should_reset |-> FALSE]]
  /\ inflight = {}
  /\ sent = [p \in Peers |-> {}]

TrapFrameStart ==
  \E dt \in TrapSteps :
    /\ game[Host].game_time + dt <= MaxGameTime
    /\ begin_frame(Host, dt)

NextTraps ==
  \/ TrapFrameStart
  \/ Tick(Host)
  \/ \E input \in TrapInputs, space_pressed \in BOOLEAN :
       move(Host, input, space_pressed)
  \/ Restart(Host)
  \/ CheckTraps(Host)
  \/ Send(Host)

SpecTraps == InitTraps /\ [][NextTraps]_vars

\* ---- the interpolator on its own ------------------------------------------
\* Frame times of SpecInterp.
InterpSteps == {5, 10}
\* Offsets of the network value from the displayed one: zero, along an axis, and along 3:4 directions, for which distances
\* and steps are whole numbers.
InterpOffsets ==
  {<<0, 0>>, <<6, 0>>, <<0, -11>>, <<-20, 0>>, <<3, 4>>, <<30, 40>>,
   <<-33, 44>>}

Shifted(point, off) == Vec2(point.x + off[1], point.y + off[2])

\* The host after a frame that received PlayerUpdate for slot 1 and then
\* GameReset (main.rs:156-166, 186-188): displayed is the initial layout,
\* network_players[1] is what the PlayerUpdate carried, freshly stamped.
InterpScene(off, shadow_off) ==
  [NewGameState(TRUE) EXCEPT
     !.client_addr = "client",
     !.network_players[1].pos = Shifted(InitialPos(1), off),
     !.network_players[1].shadow_pos = Shifted(InitialShadow(1), shadow_off)]

InitInterp ==
  /\ \E off \in InterpOffsets, shadow_off \in InterpOffsets :
       game = [p \in Peers |-> IF p = Host THEN InterpScene(off, shadow_off)
                                             ELSE StartState(Client)]
  /\ \E dt \in InterpSteps :
       frame = [p \in Peers |->
                  [pc |-> IF p = Host THEN "move" ELSE "frame",
                   dt |-> IF p = Host THEN dt ELSE 0,
                   should_reset |-> FALSE]]
  /\ inflight = {}
  /\ sent = [p \in Peers |-> {}]

\* main.rs:444 called again with the same dt and no datagram in between.
InterpolateOnce ==
  /\ frame[Host].pc = "move"
  /\ game' = [game EXCEPT ![Host] = interpolate_players(game[Host], frame[Host].dt)]
  /\ UNCHANGED <<frame, inflight, sent>>

NextInterp == InterpolateOnce

SpecInterp == InitInterp /\ [][NextInterp]_vars

\* ---- the inverse timer on its own -----------------------------------------
\* Frame times of SpecTimer; all but 300 divide both durations.
TimerSteps == {10, 50, 100, 250, 300, 500}
\* SpecTimer runs the clock over three periods.
TimerHorizon == 4500

InitTimer ==
  /\ game = [p \in Peers |-> StartState(p)]
  /\ \E dt \in TimerSteps :
       frame = [p \in Peers |->
                  [pc |-> IF p = Host THEN "receive" ELSE "frame",
                   dt |-> IF p = Host THEN dt ELSE 0,
                   should_reset |-> FALSE]]
  /\ inflight = {}
  /\ sent = [p \in Peers |-> {}]

\* main.rs:438, 441 of one host frame with nothing received.
TimerTick ==
  /\ frame[Host].pc = "receive"
  /\ game[Host].game_time + frame[Host].dt <= TimerHorizon
  /\ LET r == update_inverse_timer(
                end_receive(game[Host], FALSE, frame[Host].dt, TimerHorizon),
                frame[Host].dt)
     IN /\ game' = [game EXCEPT ![Host] = r.g]
        /\ sent' = [sent EXCEPT ![Host] = r.out]
  /\ UNCHANGED <<frame, inflight>>

NextTimer == TimerTick

SpecTimer == InitTimer /\ [][NextTimer]_vars

\* ---- the two peers on a network that delivers -----------------------------
\* SpecLive's network loses nothing and holds every datagram until the
\* receiver's next drain takes it; LiveCap is room for all of them.
LiveCap == 16

Delivers(p) == sent'[p] \subseteq inflight'

Pending(p) == {d \in inflight : d.to = PeerAddr(p)}

\* The users act in each peer's first frame and are idle from then on.
FirstFrame(p) == game[p].game_time \in FrameTimes

\* A frame is short against the time between frames: a peer starts its
\* frame when the other peer is between two of its own.
LiveFrameStart(p) ==
  /\ \A q \in Peers : Pc(q) = "frame"
  /\ \E dt \in FrameTimes : begin_frame(p, dt)

LiveReceive(p) ==
  \E d \in Pending(p) : receive(p, d) /\ inflight' = inflight \ {d}

\* recv_from reports WouldBlock (main.rs:185) when nothing is pending.
LiveTick(p) == Pending(p) = {} /\ tick(p, LiveCap) /\ Delivers(p)

LiveMove(p) ==
  \/ FirstFrame(p) /\ Move(p)
  \/ ~FirstFrame(p) /\ move(p, <<0, 0>>, FALSE)

LiveRestart(p) == restart(p, FALSE, LiveCap) /\ Delivers(p)

LiveCheckTraps(p) == trap_check(p, LiveCap) /\ Delivers(p)

LiveSend(p) == send(p, LiveCap) /\ Delivers(p)

\* One step of peer p's frame loop.
LiveStep(p) ==
  \/ LiveFrameStart(p)
  \/ LiveReceive(p)
  \/ LiveTick(p)
  \/ LiveMove(p)
  \/ LiveRestart(p)
  \/ LiveCheckTraps(p)
  \/ LiveSend(p)

NextLive == \E p \in Peers : LiveStep(p)

\* Both frame loops keep running (main.rs:430): a peer that can step again
\* and again does step.
SpecLive == Init /\ [][NextLive]_vars /\ \A p \in Peers : SF_vars(LiveStep(p))

\* ---- the two peers and datagrams that are not the peer's -------------------
\* A buffer bincode::deserialize rejects (main.rs:156).
Malformed == [type |-> "Malformed"]

\* What reaches a socket besides the peer's messages: datagrams of a third
\* address, which the host's unconnected socket accepts (main.rs:121, 150),
\* malformed or well formed, and a malformed datagram on the client's socket.
NoiseDatagrams ==
  {Datagram("stranger", "host", m) : m \in {Malformed, GameReset}}
    \cup {Datagram("host", "client", Malformed)}

Inject ==
  /\ \E d \in NoiseDatagrams :
       /\ d \notin inflight
       /\ Cardinality(inflight \cup {d}) <= MaxInFlight + 1
       /\ inflight' = inflight \cup {d}
  /\ UNCHANGED <<game, frame, sent>>

\* The users are idle.
NextNoise ==
  \/ \E p \in Peers : FrameStart(p)
  \/ \E p \in Peers : Receive(p)
  \/ \E p \in Peers : tick(p, MaxInFlight + 1)
  \/ \E p \in Peers : move(p, <<0, 0>>, FALSE)
  \/ \E p \in Peers : restart(p, FALSE, MaxInFlight + 1)
  \/ \E p \in Peers : trap_check(p, MaxInFlight + 1)
  \/ \E p \in Peers : send(p, MaxInFlight + 1)
  \/ Inject

SpecNoise == Init /\ [][NextNoise]_vars

\* ---- the client against every host ----------------------------------------
\* Records a host can hold and send in a PlayerUpdate: slot 0 with its shadow
\* moved by the client's opponent control echoed back, slot 1 with its body
\* moved by the host during inverse control, slot 1 trapped with a point.
HostPlayers ==
  {[InitialPlayer(0) EXCEPT !.shadow_pos = Vec2(3000, 5000)],
   [InitialPlayer(1) EXCEPT !.pos = Vec2(3600, 4000)],
   [InitialPlayer(1) EXCEPT !.is_trapped = TRUE, !.score = 1]}

\* The messages of the host (main.rs:195-211, 356, 465, 475-485).
HostMessages ==
  {PlayerUpdate(player) : player \in HostPlayers}
    \cup {InverseControl(TRUE, INVERSE_DURATION), InverseControl(FALSE, 0),
          InverseControl(TRUE, INVERSE_DURATION - 240)}
    \cup {TrapEvent(1), GameReset}

\* The host sends a message and the network keeps it.
HostSends ==
  /\ \E msg \in HostMessages :
       LET d == Datagram("host", "client", msg)
       IN /\ d \notin inflight
          /\ Cardinality(inflight \cup {d}) <= MaxInFlight
          /\ inflight' = inflight \cup {d}
  /\ UNCHANGED <<game, frame, sent>>

\* The room the network has for the client's datagrams: none, the host's
\* side being HostSends, which does not wait for them.
NoRoom == Cardinality(inflight)

NextFollower ==
  \/ FrameStart(Client)
  \/ Receive(Client)
  \/ tick(Client, NoRoom)
  \/ Move(Client)
  \/ \E r_pressed \in BOOLEAN : restart(Client, r_pressed, NoRoom)
  \/ trap_check(Client, NoRoom)
  \/ send(Client, NoRoom)
  \/ HostSends

SpecFollower == Init /\ [][NextFollower]_vars

\* ---- one drain of PlayerUpdates on its own --------------------------------
\* Records a peer can send: each slot with its body moved by the opponent
\* during inverse control, and with its shadow moved, trapped, one point.
UpdateRecords ==
  UNION {{[InitialPlayer(i) EXCEPT !.pos = MoveTarget(InitialPos(i), <<-1, 0>>, dt)],
          [InitialPlayer(i) EXCEPT
             !.shadow_pos = MoveTarget(InitialShadow(i), <<-1, 0>>, dt),
             !.is_trapped = TRUE, !.score = 1]} : i \in Slots, dt \in FrameTimes}

BatchSizes == {1, 2}

\* Peer p at the start of a drain, before its first tick or, with inverse
\* control active, after it: the host by its own timer (main.rs:204-207),
\* the client by a received InverseControl (main.rs:169-172).
DrainStart(p, active) ==
  IF ~active THEN StartState(p)
  ELSE IF p = Host
    THEN [StartState(p) EXCEPT !.inverse_active = TRUE,
                               !.inverse_timer = INVERSE_DURATION,
                               !.inverse_cooldown = INVERSE_COOLDOWN,
                               !.game_time = CHOOSE dt \in FrameTimes : TRUE]
    ELSE [StartState(p) EXCEPT !.inverse_active = TRUE,
                               !.inverse_timer = INVERSE_DURATION]

\* A peer begins a frame with a batch of the other peer's PlayerUpdates
\* pending.
InitUpdates ==
  \E p \in Peers, active \in BOOLEAN, dt \in FrameTimes :
    \E batch \in {b \in SUBSET UpdateRecords : Cardinality(b) \in BatchSizes} :
      /\ game = [q \in Peers |-> IF q = p THEN DrainStart(p, active) ELSE StartState(q)]
      /\ frame = [q \in Peers |->
                    IF q = p THEN [pc |-> "receive", dt |-> dt, should_reset |-> FALSE]
                    ELSE [pc |-> "frame", dt |-> 0, should_reset |-> FALSE]]
      /\ inflight = {Datagram(AddrOf(StartState(1 - p)), AddrOf(StartState(p)),
                              PlayerUpdate(player)) : player \in batch}
      /\ sent = [q \in Peers |-> {}]

NextUpdates ==
  \/ \E p \in Peers : Receive(p)
  \/ \E p \in Peers : Tick(p)
  \/ \E p \in Peers : move(p, <<0, 0>>, FALSE)

SpecUpdates == InitUpdates /\ [][NextUpdates]_vars

\* ---- update_player on its own ----------------------------------------------
\* get_input (main.rs:367-389) for one key or two opposite keys; two keys
\* at right angles give an irrational direction, which is left out.
MoveInputs == {<<-1, 0>>, <<1, 0>>, <<0, -1>>, <<0, 1>>}

\* The host at its n-th input step: n times update_inverse_timer from the
\* start (main.rs:438-441), which takes it into the active window and out.
RECURSIVE HostTicked(_, _)
HostTicked(n, dt) ==
  IF n = 0 THEN StartState(Host)
  ELSE update_inverse_timer(
         end_receive(HostTicked(n - 1, dt), FALSE, dt, MaxGameTime), dt).g

TickCounts == 1..5

\* The client at an input step, following a received InverseControl or not
\* (main.rs:169-172), and with the host's slot scored by a TrapEvent
\* (main.rs:175-177), which players records and network_players does not,
\* or not.
ClientFollowing(active, trapped) ==
  LET g == DrainStart(Client, active)
  IN IF trapped
       THEN [g EXCEPT !.players[Host].is_trapped = TRUE,
                      !.players[Host].score = 1,
                      !.trap_flash_timer[Host] = FLASH_TIME]
       ELSE g

MoveStarts(dt) ==
  {HostTicked(n, dt) : n \in TickCounts}
    \cup {ClientFollowing(active, trapped) : active, trapped \in BOOLEAN}

InitMove ==
  \E dt \in FrameTimes : \E g \in MoveStarts(dt) :
    /\ game = [q \in Peers |-> IF q = g.player_id THEN g ELSE StartState(q)]
    /\ frame = [q \in Peers |->
                  IF q = g.player_id
                    THEN [pc |-> "move", dt |-> dt, should_reset |-> FALSE]
                    ELSE [pc |-> "frame", dt |-> 0, should_reset |-> FALSE]]
    /\ inflight = {}
    /\ sent = [q \in Peers |-> {}]

\* main.rs:447-452, frame after frame with a key held.
KeyHeld(p) ==
  /\ Pc(p) = "move"
  /\ \E input \in MoveInputs :
       game' = [game EXCEPT ![p] = apply_input(game[p], input, frame[p].dt)]
  /\ UNCHANGED <<frame, inflight, sent>>

NextMove == \E p \in Peers : KeyHeld(p)

SpecMove == InitMove /\ [][NextMove]_vars

\* ---- the two peers with input along both axes -----------------------------

\* get_input (main.rs:367-389) yields a unit vector; these are the ones along
\* an axis. The host's user pushes left, right and down and the client's
\* user up, so that each edge of the playfield is met.
BoxInputs(p) ==
  IF p = Host THEN {<<-1, 0>>, <<1, 0>>, <<0, 1>>} ELSE {<<0, -1>>}

\* The host's user drags and may swap; the client's user drags.
BoxMove(p) ==
  \E input \in BoxInputs(p), space_pressed \in BOOLEAN :
    /\ p = Client => ~space_pressed
    /\ move(p, input, space_pressed)

\* The system of Spec (datagrams lost or delivered more than once) under
\* these inputs.
NextBox ==
  \/ \E p \in Peers : FrameStart(p)
  \/ \E p \in Peers : Receive(p)
  \/ \E p \in Peers : Tick(p)
  \/ \E p \in Peers : BoxMove(p)
  \/ \E p \in Peers : Restart(p)
  \/ \E p \in Peers : CheckTraps(p)
  \/ \E p \in Peers : Send(p)

SpecBox == Init /\ [][NextBox]_vars

\* ---- properties ----------------------------------------------------------

\* The step runs reset_game on peer p: the deferred reset of a received
\* GameReset (main.rs:186-188) or the local restart (main.rs:464-466).
ResetStep(p) ==
  \/ Pc(p) = "receive" /\ frame[p].should_reset /\ frame'[p].pc = "move"
  \/ Pc(p) = "restart" /\ is_game_over(game[p]) /\ frame'[p].pc = "check_traps"
       /\ game'[p] = reset_game(game[p])

\* The step is the host's check_traps and it measures slot i farther than
\* twice TRAP_RADIUS from the other slot's shadow.
MeasuredFar(i) ==
  /\ Pc(Host) = "check_traps" /\ frame'[Host].pc = "send"
  /\ TrapDist2(game[Host], i) > (TRAP_RADIUS * 2) * (TRAP_RADIUS * 2)

\* C1 (as claimed): on the host a displayed is_trapped[i] that is true stays
\* true in every step except a reset and a check_traps that measures slot i
\* farther than 2*TRAP_RADIUS from the other slot's shadow.
C1_HysteresisHolds ==
  [][\A i \in Slots :
       (game[Host].players[i].is_trapped /\ ~game'[Host].players[i].is_trapped)
         => (ResetStep(Host) \/ MeasuredFar(i))]_vars

\* C2 (as claimed): on each peer game-over, once true, stays true in every
\* step that does not run reset_game there.
C2_GameOverSticky ==
  [][\A p \in Peers :
       (is_game_over(game[p]) /\ ~is_game_over(game'[p])) => ResetStep(p)]_vars

Stale(p, i) == game[p].last_network_update[i] > STALE_AFTER

\* C6 (as claimed): when interpolate_players runs with the non-local slot
\* stale, the displayed record of that slot equals its network record after
\* the call, and still does when that frame has ended.
C6_StaleSnapUntilFrameEnd ==
  \A p \in Peers :
    LET o == OtherSlot(p)
    IN /\ (Pc(p) = "move" /\ Stale(p, o))
            => interpolate_players(game[p], frame[p].dt).players[o]
                 = game[p].network_players[o]
       /\ (Pc(p) = "frame" /\ game[p].game_time > 0 /\ Stale(p, o))
            => game[p].players[o] = game[p].network_players[o]

\* C8: reset_game, from every state a peer reaches, leaves both displayed
\* slots at the initial layout with score 0 and is_trapped false, both flash
\* timers 0, the inverse state inactive with timer and cooldown 0, and does
\* not change game_time, is_host, player_id or client_addr.
C8_ResetPostState ==
  \A p \in Peers :
    LET g == game[p]
        r == reset_game(g)
    IN /\ \A i \in Slots :
            /\ r.players[i].pos = InitialPos(i)
            /\ r.players[i].shadow_pos = InitialShadow(i)
            /\ r.players[i].score = 0
            /\ r.players[i].is_trapped = FALSE
            /\ r.trap_flash_timer[i] = 0
       /\ r.inverse_active = FALSE
       /\ r.inverse_timer = 0
       /\ r.inverse_cooldown = 0
       /\ r.game_time = g.game_time
       /\ r.is_host = g.is_host
       /\ r.player_id = g.player_id
       /\ r.client_addr = g.client_addr

\* A peer has just run the local restart: reset_game from a game-over state
\* with a running clock, and GameReset handed to the socket.
C8_Witness ==
  \E p \in Peers :
    /\ Pc(p) = "check_traps"
    /\ \E d \in sent[p] : d.msg.type = "GameReset"
    /\ game[p].game_time > 0
    /\ \A i \in Slots : game[p].players[i].score = 0
    /\ \E i \in Slots : game[p].network_players[i].score >= WIN_SCORE

\* C9 (as claimed): receiving a pending TrapEvent a second time leaves
\* is_trapped and score of its slot as the first receipt left them.
C9_TrapEventIdempotent ==
  \A p \in Peers : \A d \in inflight :
    (d.to = PeerAddr(p) /\ d.msg.type = "TrapEvent")
      => LET once == receive_one(game[p], d, FALSE).g
             twice == receive_one(once, d, FALSE).g
             pid == d.msg.player_id
         IN /\ twice.players[pid].is_trapped = once.players[pid].is_trapped
            /\ twice.players[pid].score = once.players[pid].score

\* C10 (as claimed): whenever a step of a peer hands datagrams to its socket,
\* network_players of the peer's own slot equals players of that slot.
C10_SyncedAtEverySend ==
  \A p \in Peers :
    sent[p] # {} => game[p].network_players[OwnSlot(p)] = game[p].players[OwnSlot(p)]

\* ---- C4 --------------------------------------------------------------------
TrapEventsFor(out, i) == {d \in out : d.msg = TrapEvent(i)}

\* What one check_traps call on the host does to slot i, apart from sending.
TrapTransition(g, dt, i) ==
  LET r == check_traps(g, dt)
      d2 == TrapDist2(g, i)
      was == g.players[i]
      now == r.g.players[i]
      flash == decay_flash(g, dt).trap_flash_timer[i]
  IN /\ now.pos = was.pos /\ now.shadow_pos = was.shadow_pos
     /\ IF d2 < TRAP_RADIUS * TRAP_RADIUS /\ ~was.is_trapped
          THEN /\ now.is_trapped
               /\ now.score = was.score + 1
               /\ r.g.trap_flash_timer[i] = FLASH_TIME
        ELSE IF was.is_trapped /\ d2 > (2 * TRAP_RADIUS) * (2 * TRAP_RADIUS)
          THEN /\ ~now.is_trapped
               /\ now.score = was.score
               /\ r.g.trap_flash_timer[i] = flash
               /\ TrapEventsFor(r.out, i) = {}
        ELSE /\ now.is_trapped = was.is_trapped
             /\ now.score = was.score
             /\ r.g.trap_flash_timer[i] = flash
             /\ TrapEventsFor(r.out, i) = {}

Entering(g, i) ==
  TrapDist2(g, i) < TRAP_RADIUS * TRAP_RADIUS /\ ~g.players[i].is_trapped

\* C4 (amended): one host check_traps step does, for each slot i, what the
\* claim says to is_trapped[i], score[i] and the flash timer, in either
\* order of the slots; the TrapEvent{i} of an entry is handed to the socket
\* when the host knows the client's address and is dropped when not.
C4_TrapStep ==
  Pc(Host) = "check_traps" =>
    LET g == game[Host]
        dt == frame[Host].dt
        r == check_traps(g, dt)
    IN /\ \A i \in Slots :
            /\ TrapTransition(g, dt, i)
            /\ Entering(g, i) =>
                 TrapEventsFor(r.out, i) =
                   IF g.client_addr = "none" THEN {}
                   ELSE {Datagram("host", g.client_addr, TrapEvent(i))}
       /\ trap_slot(trap_slot(decay_flash(g, dt), 1).g, 0).g = r.g

\* C4 (as claimed): as above, and every entry sends one TrapEvent{i}: when
\* check_traps has just armed the flash timer of slot i, a TrapEvent{i} is
\* among the datagrams it handed to the socket.
C4_TrapEventAlwaysSent ==
  /\ Pc(Host) = "check_traps"
        => \A i \in Slots : TrapTransition(game[Host], frame[Host].dt, i)
  /\ Pc(Host) = "send"
        => \A i \in Slots :
             game[Host].trap_flash_timer[i] = FLASH_TIME
               => Cardinality(TrapEventsFor(sent[Host], i)) = 1

\* check_traps has just trapped slot 0 and handed its TrapEvent to the
\* socket, with slot 1 left trapped between the two thresholds.
C4_Witness ==
  /\ Pc(Host) = "send"
  /\ game[Host].players[0].is_trapped
  /\ game[Host].trap_flash_timer[0] = FLASH_TIME
  /\ game[Host].players[0].score = 1
  /\ \E d \in sent[Host] : d.msg = TrapEvent(0)
  /\ game[Host].players[1].is_trapped
  /\ TrapDist2(game[Host], 1) > TRAP_RADIUS * TRAP_RADIUS

\* ---- C5 --------------------------------------------------------------------
\* One interpolation call on a point: the distance to the target does not
\* grow, the point does not pass the target on either axis, a point within
\* the dead zone rests, and any other point either lands on the target or
\* comes INTERPOLATION_SPEED * dt closer.
ApproachStep(current, target, dt) ==
  LET next == Approach(current, target, dt)
      d2 == Dist2(current, target)
      n2 == Dist2(next, target)
  IN /\ n2 <= d2
     /\ (target.x - next.x) * (target.x - current.x) >= 0
     /\ (target.y - next.y) * (target.y - current.y) >= 0
     /\ IF d2 <= DEAD_ZONE * DEAD_ZONE THEN next = current
        ELSE \/ next = target
             \/ Sqrt(n2) = Sqrt(d2) - INTERPOLATION_SPEED * dt

\* Further calls leave the point where it is.
AtRest(current, target, dt) == Approach(current, target, dt) = current

Interpolating(p) == Pc(p) = "move" /\ ~Stale(p, OtherSlot(p))

\* C5 (amended): with the network value fixed, no staleness snap and a
\* fixed dt, each call leaves pos and shadow_pos of the non-local slot no
\* farther from the target and never past it; each call either lands on the
\* target or closes INTERPOLATION_SPEED * dt of the distance, until the
\* point is on the target or within the 0.1 px dead zone, where it rests.
C5_ConvergesToDeadZone ==
  \A p \in Peers :
    Interpolating(p) =>
      LET o == OtherSlot(p)
          g == game[p]
          dt == frame[p].dt
          r == interpolate_players(g, dt)
      IN /\ ApproachStep(g.players[o].pos, g.network_players[o].pos, dt)
         /\ ApproachStep(g.players[o].shadow_pos, g.network_players[o].shadow_pos, dt)
         /\ r.players[o].pos = Approach(g.players[o].pos, g.network_players[o].pos, dt)
         /\ r.players[o].shadow_pos =
              Approach(g.players[o].shadow_pos, g.network_players[o].shadow_pos, dt)
         /\ r.network_players = g.network_players
         /\ (AtRest(g.players[o].pos, g.network_players[o].pos, dt)
               => Dist2(g.players[o].pos, g.network_players[o].pos)
                    <= DEAD_ZONE * DEAD_ZONE)
         /\ (AtRest(g.players[o].shadow_pos, g.network_players[o].shadow_pos, dt)
               => Dist2(g.players[o].shadow_pos, g.network_players[o].shadow_pos)
                    <= DEAD_ZONE * DEAD_ZONE)

\* C5 (as claimed): the calls end with displayed equal to the target: a
\* point that further calls no longer move is on the target.
C5_ReachesTargetExactly ==
  \A p \in Peers :
    Interpolating(p) =>
      LET o == OtherSlot(p)
          g == game[p]
          dt == frame[p].dt
      IN /\ AtRest(g.players[o].pos, g.network_players[o].pos, dt)
              => g.players[o].pos = g.network_players[o].pos
         /\ AtRest(g.players[o].shadow_pos, g.network_players[o].shadow_pos, dt)
              => g.players[o].shadow_pos = g.network_players[o].shadow_pos

\* Interpolation has moved the body of slot 1 into the dead zone, where it
\* rests short of the target, and has landed the shadow on its target.
C5_Witness ==
  LET g == game[Host]
  IN /\ Interpolating(Host)
     /\ g.players[1].pos # InitialPos(1)
     /\ g.players[1].pos # g.network_players[1].pos
     /\ Dist2(g.players[1].pos, g.network_players[1].pos) <= DEAD_ZONE * DEAD_ZONE
     /\ g.players[1].shadow_pos # InitialShadow(1)
     /\ g.players[1].shadow_pos = g.network_players[1].shadow_pos

\* ---- C7 --------------------------------------------------------------------
Period == INVERSE_DURATION + INVERSE_COOLDOWN

\* The frame time lands on the end of every window.
DividesWindows(dt) == INVERSE_DURATION % dt = 0 /\ INVERSE_COOLDOWN % dt = 0

\* C7 (amended): from the initial state, ticking with a constant frame time
\* dt, the first tick (T = dt) activates; a running window has between 0
\* (exclusive) and its full duration left; and when dt divides both
\* durations, inverse_active is true iff T >= dt and
\* (T - dt) mod (INVERSE_DURATION + INVERSE_COOLDOWN) < INVERSE_DURATION.
C7_PeriodicFromFirstTick ==
  LET g == game[Host]
      T == g.game_time
      dt == frame[Host].dt
  IN /\ T = 0 => ~g.inverse_active
     /\ T = dt => g.inverse_active /\ g.inverse_timer = INVERSE_DURATION
     /\ g.inverse_active
          => g.inverse_timer > 0 /\ g.inverse_timer <= INVERSE_DURATION
     /\ (~g.inverse_active /\ T > 0)
          => g.inverse_cooldown > 0 /\ g.inverse_cooldown <= INVERSE_COOLDOWN
     /\ DividesWindows(dt)
          => (g.inverse_active <=> (T >= dt /\ (T - dt) % Period < INVERSE_DURATION))

\* C7 (as claimed): after ticks summing to T > 0, whatever the frame time,
\* inverse_active is true iff T mod (INVERSE_DURATION + INVERSE_COOLDOWN)
\* < INVERSE_DURATION, with T counted from the start or, accounting for the
\* immediate flip, from the first tick.
C7_ActiveIffPhase ==
  LET g == game[Host]
      T == g.game_time
      dt == frame[Host].dt
  IN T > 0 =>
       \/ g.inverse_active <=> (T % Period < INVERSE_DURATION)
       \/ g.inverse_active <=> ((T - dt) % Period < INVERSE_DURATION)

\* The timer is in its third active window, entered on time, with a frame
\* time that divides both durations.
C7_Witness ==
  LET g == game[Host]
  IN /\ DividesWindows(frame[Host].dt)
     /\ g.game_time = 2 * Period + frame[Host].dt
     /\ g.inverse_active
     /\ g.inverse_timer = INVERSE_DURATION

\* ---- C3 --------------------------------------------------------------------
BetweenFrames == \A p \in Peers : Pc(p) = "frame"

DisplayedEqual == \A i \in Slots : game[Host].players[i] = game[Client].players[i]

\* C3 (as claimed): with the users idle after the first frame, both frame
\* loops running and every datagram delivered, from some point on the two
\* peers' displayed records are equal for both slots whenever both peers
\* are between frames.
C3_EventuallyConsistent == <>[](BetweenFrames => DisplayedEqual)

\* ---- C11 -------------------------------------------------------------------
PendingFor(p) == {d \in inflight : d.to = PeerAddr(p)}

\* C11 (as claimed): receiving a datagram that fails to decode changes no
\* field of the receiving peer's state and raises no reset, also when it is
\* the first datagram the host receives; and a datagram received after it
\* in the same drain is dispatched as if the malformed one had not come.
C11_DecodeFailureNoEffect ==
  \A p \in Peers : \A d \in PendingFor(p) :
    d.msg = Malformed =>
      LET r == receive_one(game[p], d, frame[p].should_reset)
      IN /\ r.g = game[p]
         /\ r.should_reset = frame[p].should_reset
         /\ \A e \in PendingFor(p) :
              receive_one(r.g, e, r.should_reset)
                = receive_one(game[p], e, frame[p].should_reset)

\* ---- C12 -------------------------------------------------------------------
\* C12 (as claimed): once the host has learned its client's address,
\* receiving a well-formed datagram from any other address changes no host
\* state and raises no reset.
C12_SecondSenderIgnored ==
  \A d \in PendingFor(Host) :
    (game[Host].client_addr = PeerAddr(Client) /\ d.from # PeerAddr(Client)
       /\ d.msg # Malformed)
      => LET r == receive_one(game[Host], d, frame[Host].should_reset)
         IN r.g = game[Host] /\ r.should_reset = frame[Host].should_reset

\* ---- C13 -------------------------------------------------------------------
InverseState(g) == <<g.inverse_active, g.inverse_timer>>

\* The step is the client's receipt of a pending InverseControl, after which
\* its inverse state is the message's fields.
AppliesInverseControl ==
  /\ Pc(Client) = "receive" /\ frame'[Client].pc = "receive"
  /\ \E d \in PendingFor(Client) :
       /\ d.msg.type = "InverseControl"
       /\ InverseState(game'[Client]) = <<d.msg.active, d.msg.time_left>>

\* In every state: nothing the client handed to its socket or has in flight
\* is an InverseControl or a TrapEvent; update_inverse_timer and check_traps
\* return the client's state unchanged and send nothing; and receiving a
\* pending InverseControl makes the inverse state the message's fields and
\* changes nothing else.
C13_ClientFollows ==
  /\ \A d \in sent[Client] \cup {e \in inflight : e.from = PeerAddr(Client)} :
       d.msg.type \notin {"InverseControl", "TrapEvent"}
  /\ \A dt \in FrameTimes :
       /\ update_inverse_timer(game[Client], dt) = [g |-> game[Client], out |-> {}]
       /\ check_traps(game[Client], dt) = [g |-> game[Client], out |-> {}]
  /\ \A d \in PendingFor(Client) :
       d.msg.type = "InverseControl"
         => receive_one(game[Client], d, FALSE).g
              = [game[Client] EXCEPT !.inverse_active = d.msg.active,
                                     !.inverse_timer = d.msg.time_left]

\* A step that changes the client's inverse_active or inverse_timer is the
\* receipt of an InverseControl, and leaves them equal to its fields, or is
\* a reset, and leaves them as reset_game does.
C13_InverseChangesOnlyByMessage ==
  InverseState(game'[Client]) # InverseState(game[Client])
    => \/ AppliesInverseControl
       \/ ResetStep(Client) /\ InverseState(game'[Client]) = <<FALSE, 0>>

\* C13: the client never sends InverseControl or TrapEvent; on the client
\* update_inverse_timer and check_traps change nothing; the client's
\* inverse_active and inverse_timer change only by a received InverseControl,
\* to its fields, or by a reset.
C13_HostOnlyAuthority ==
  []C13_ClientFollows /\ [][C13_InverseChangesOnlyByMessage]_vars

\* The client follows a received InverseControl through a whole frame: its
\* inverse control is active with the time the message carried, after its
\* own update_inverse_timer and check_traps have run.
C13_Witness ==
  /\ Pc(Client) = "send"
  /\ game[Client].inverse_active
  /\ game[Client].inverse_timer = INVERSE_DURATION - 240
  /\ game[Client].game_time > 240

\* ---- C14 -------------------------------------------------------------------
\* The step is peer p's check_traps, the one place of the frame where flash
\* timers decay (main.rs:334-339).
ChecksTraps(p) == Pc(p) = "check_traps" /\ frame'[p].pc = "send"

FlashDecays(p, i) ==
  (ChecksTraps(p) /\ frame[p].dt > 0 /\ game[p].trap_flash_timer[i] > 0)
    => \/ game'[p].trap_flash_timer[i] < game[p].trap_flash_timer[i]
       \/ /\ game'[p].players[i].score > game[p].players[i].score
          /\ game'[p].trap_flash_timer[i] = FLASH_TIME

\* C14 (as claimed): on the host and on the client alike, a frame with
\* positive dt that finds a slot's flash timer positive leaves it smaller,
\* unless the frame's trap detection scores the slot and arms it again.
C14_FlashTimerDecays == [][\A p \in Peers, i \in Slots : FlashDecays(p, i)]_vars

\* ---- C15 -------------------------------------------------------------------
\* The host's previous check_traps trapped slot i and nothing has run
\* check_traps or reset_game since: its flash timer, which every host
\* check_traps decays and every reset clears, is still at FLASH_TIME.
JustTrapped(i) ==
  Pc(Host) = "check_traps" /\ game[Host].trap_flash_timer[i] = FLASH_TIME

\* C15 (as claimed): when the host comes to check_traps with slot i trapped
\* by the check_traps of the frame before, and so with no distance measured
\* beyond twice TRAP_RADIUS since, it does not take slot i for entering
\* again: no second TrapEvent{i}, no second point.
C15_OneTrapEventPerEntry ==
  \A i \in Slots : JustTrapped(i) => ~Entering(game[Host], i)

\* ---- C16 -------------------------------------------------------------------
InitialLayout(player, i) ==
  /\ player.pos = InitialPos(i)
  /\ player.shadow_pos = InitialShadow(i)
  /\ player.score = 0
  /\ ~player.is_trapped

\* C16 (as claimed): a reset on a peer, local or by a received GameReset,
\* leaves network_players of both slots, like players, at the initial layout
\* with score 0 and is_trapped false.
C16_ResetCoversNetworkState ==
  [][\A p \in Peers :
       ResetStep(p) => \A i \in Slots :
                         /\ InitialLayout(game'[p].players[i], i)
                         /\ InitialLayout(game'[p].network_players[i], i)]_vars

\* ---- C17 -------------------------------------------------------------------
\* Where update_player puts the client's body when the host's user holds
\* left for one frame from the initial layout.
Dragged ==
  MoveTarget(InitialPos(Client), <<-1, 0>>, CHOOSE dt \in FrameTimes : TRUE)

\* The host, under inverse control, has just moved the client's body with
\* update_player; the client's user has had its first frame and, like the
\* host's, gives no input from now on.
HostDraggedClient ==
  /\ Pc(Host) = "restart" /\ FirstFrame(Host)
  /\ game[Host].inverse_active
  /\ game[Host].players[Client].pos = Dragged
  /\ game[Host].network_players[Client].pos = Dragged
  /\ Pc(Client) = "frame" /\ game[Client].game_time > 0

DraggedOnBoth ==
  \A p \in Peers : game[p].players[Client].pos = Dragged

\* C17 (as claimed): when the host has moved the client's body and no more
\* input is given, with every datagram delivered, eventually and from then
\* on both peers display the client's body where the host put it.
C17_CrossControlTakesEffect ==
  [](HostDraggedClient => <>[](BetweenFrames => DraggedOnBoth))

\* ---- C18 -------------------------------------------------------------------
OwnPoints(g) == <<g.players[g.player_id].pos, g.players[g.player_id].shadow_pos>>

\* The step is peer p's input step (main.rs:444-460).
Moves(p) == Pc(p) = "move" /\ frame'[p].pc = "restart"

\* In every state: receiving any pending datagram, update_player with any
\* input and interpolate_players leave the own slot's pos and shadow_pos
\* as they are.
C18_OwnSlotUntouched ==
  \A p \in Peers :
    LET g == game[p]
    IN /\ \A d \in PendingFor(p) :
            OwnPoints(receive_one(g, d, frame[p].should_reset).g) = OwnPoints(g)
       /\ \A input \in Inputs, dt \in FrameTimes :
            OwnPoints(update_player(g, input, dt)) = OwnPoints(g)
       /\ \A dt \in FrameTimes : OwnPoints(interpolate_players(g, dt)) = OwnPoints(g)

\* A step that changes the own slot's pos or shadow_pos is an input step
\* that exchanges them, or a reset, which puts them at the initial layout.
C18_OwnSlotChangesBySwapOrReset ==
  \A p \in Peers :
    OwnPoints(game'[p]) # OwnPoints(game[p])
      => \/ /\ Moves(p)
            /\ OwnPoints(game'[p]) = <<OwnPoints(game[p])[2], OwnPoints(game[p])[1]>>
         \/ /\ ResetStep(p)
            /\ OwnPoints(game'[p]) = <<InitialPos(OwnSlot(p)), InitialShadow(OwnSlot(p))>>

\* C18: on each peer the displayed pos and shadow_pos of the own slot change
\* only through swap_with_shadow or reset_game; directional input,
\* interpolation and every received PlayerUpdate, also one for the own
\* slot, leave them unchanged.
C18_OwnSlotMovedOnlyBySwap ==
  []C18_OwnSlotUntouched /\ [][C18_OwnSlotChangesBySwapOrReset]_vars

\* The client has just received a PlayerUpdate for its own slot that puts
\* its body elsewhere: network_players has the new position, the displayed
\* record has not.
C18_Witness ==
  /\ Pc(Client) = "receive"
  /\ game[Client].last_network_update[Client] = 0
  /\ game[Client].network_players[Client].pos # game[Client].players[Client].pos
  /\ game[Client].players[Client].pos = InitialPos(Client)

\* ---- C19 -------------------------------------------------------------------
PendingUpdates(p) == {d \in PendingFor(p) : d.msg.type = "PlayerUpdate"}

\* What receiving the PlayerUpdate d does to the state g of peer p.
PlayerUpdateEffect(p, d) ==
  LET g == game[p]
      player == d.msg.player
      pid == player.id
      r == receive_one(g, d, frame[p].should_reset)
  IN /\ r.should_reset = frame[p].should_reset
     /\ r.g.network_players[pid] = player
     /\ r.g.last_network_update[pid] = 0
     /\ r.g.players[pid] = IF pid # g.player_id THEN player ELSE g.players[pid]
     /\ r.g.players[1 - pid] = g.players[1 - pid]
     /\ r.g.network_players[1 - pid] = g.network_players[1 - pid]
     /\ r.g.last_network_update[1 - pid] = g.last_network_update[1 - pid]
     /\ InverseState(r.g) = InverseState(g)
     /\ r.g.inverse_cooldown = g.inverse_cooldown
     /\ r.g.trap_flash_timer = g.trap_flash_timer

\* Receiving d and then e, two updates for the same slot other than the
\* own: the slot's records are e's.
LastWriterWins(p, d, e) ==
  (d.msg.player.id = e.msg.player.id /\ e.msg.player.id # OwnSlot(p))
    => LET pid == e.msg.player.id
           g2 == receive_one(receive_one(game[p], d, FALSE).g, e, FALSE).g
       IN g2.network_players[pid] = e.msg.player /\ g2.players[pid] = e.msg.player

\* C19: receiving PlayerUpdate(player) sets network_players[player.id] to
\* player and refreshes that slot's timestamp unconditionally, sets
\* players[player.id] to player iff that is not the own slot, and leaves the
\* other slot's records, the inverse state and the flash timers unchanged;
\* of two updates for the non-own slot received one after the other, in
\* either order, the slot's network_players and players equal the one
\* received last.
C19_PlayerUpdateLastWriterWins ==
  \A p \in Peers :
    /\ \A d \in PendingUpdates(p) : PlayerUpdateEffect(p, d)
    /\ \A d, e \in PendingUpdates(p) : LastWriterWins(p, d, e)

\* A peer has drained a batch of two updates, one for each slot: the slot
\* that is not its own displays the received record, its own slot has the
\* received record in network_players and displays the initial one.
C19_Witness ==
  \E p \in Peers :
    /\ Pc(p) = "receive" /\ inflight = {}
    /\ game[p].players[OtherSlot(p)] \in UpdateRecords
    /\ game[p].network_players[OtherSlot(p)] = game[p].players[OtherSlot(p)]
    /\ game[p].network_players[OwnSlot(p)] \in UpdateRecords
    /\ game[p].players[OwnSlot(p)] = InitialPlayer(OwnSlot(p))
    /\ \A i \in Slots : game[p].last_network_update[i] = 0

\* ---- C20 -------------------------------------------------------------------
Clamped(v, lo, hi) == IF v < lo THEN lo ELSE IF v > hi THEN hi ELSE v

\* Where the claim puts a point moved by input for dt.
ClaimedTarget(old, input, dt) ==
  Vec2(Clamped(old.x + input[1] * PLAYER_SPEED * dt,
               PLAYER_SIZE, SCREEN_WIDTH - PLAYER_SIZE),
       Clamped(old.y + input[2] * PLAYER_SPEED * dt,
               PLAYER_SIZE, SCREEN_HEIGHT - PLAYER_SIZE))

\* update_player(input, dt) on the state g: the one point it may change
\* gets the claimed value in players and in network_players of the
\* opponent's slot, and nothing else changes.
ResolverEffect(g, input, dt) ==
  LET r == update_player(g, input, dt)
      other_id == 1 - g.player_id
  IN IF g.inverse_active
       THEN LET target == ClaimedTarget(g.players[other_id].pos, input, dt)
            IN r = [g EXCEPT !.players[other_id].pos = target,
                             !.network_players[other_id].pos = target]
       ELSE LET target == ClaimedTarget(g.players[other_id].shadow_pos, input, dt)
            IN r = [g EXCEPT !.players[other_id].shadow_pos = target,
                             !.network_players[other_id].shadow_pos = target]

\* C20: update_player(input, dt) changes one point only, the opponent
\* slot's shadow_pos when the local inverse_active is false and its pos when
\* it is true; the new value is old + input*PLAYER_SPEED*dt clamped per axis
\* to [PLAYER_SIZE, SCREEN_WIDTH-PLAYER_SIZE] x [PLAYER_SIZE,
\* SCREEN_HEIGHT-PLAYER_SIZE], the same in players and network_players of
\* the opponent slot; the own slot and all other fields are unchanged.
C20_CrossControlResolver ==
  \A p \in Peers, input \in MoveInputs, dt \in FrameTimes :
    ResolverEffect(game[p], input, dt)

\* A peer has pushed the opponent's point against the left and the top
\* edge, where the clamp held it; the point it does not control and its own
\* slot are where they started.
C20_Witness ==
  \E p \in Peers :
    LET g == game[p]
        other_id == 1 - g.player_id
        moved == IF g.inverse_active THEN g.players[other_id].pos
                 ELSE g.players[other_id].shadow_pos
        kept == IF g.inverse_active THEN g.players[other_id].shadow_pos
                ELSE g.players[other_id].pos
    IN /\ Pc(p) = "move"
       /\ moved = Vec2(PLAYER_SIZE, PLAYER_SIZE)
       /\ kept = (IF g.inverse_active THEN InitialShadow(other_id)
                  ELSE InitialPos(other_id))
       /\ g.players[g.player_id] = InitialPlayer(g.player_id)
       /\ g.network_players[other_id].score # g.players[other_id].score

\* ---- C21 -------------------------------------------------------------------
\* swap_with_shadow on the state g: the two points of the own slot change
\* places in players and in network_players, nothing else changes, and a
\* second swap gives g back.
SwapEffect(g) ==
  LET own == g.player_id
      s == swap_with_shadow(g)
  IN /\ s = [g EXCEPT !.players[own].pos = g.players[own].shadow_pos,
                      !.players[own].shadow_pos = g.players[own].pos,
                      !.network_players[own].pos = g.network_players[own].shadow_pos,
                      !.network_players[own].shadow_pos = g.network_players[own].pos]
     /\ swap_with_shadow(s) = g

\* Peer p at its input step: with space pressed, whatever the direction
\* keys, the step leaves the own slot exchanged in players and, after the
\* sync of main.rs:460, the same record in network_players.
SwapThenSync(p) ==
  Pc(p) = "move" =>
    \A input \in Inputs :
      LET g == game[p]
          m == move_players(g, input, TRUE, frame[p].dt)
      IN /\ m.players[g.player_id] = SwapPoints(g.players[g.player_id])
         /\ m.network_players[g.player_id] = m.players[g.player_id]

\* Peer p at its periodic send: a PlayerUpdate handed to the socket for the
\* own slot is the own slot's network record.
SendsOwnRecord(p) ==
  Pc(p) = "send" =>
    \A d \in periodic_send(game[p]).out :
      (d.msg.type = "PlayerUpdate" /\ d.msg.player.id = OwnSlot(p))
        => d.msg.player = game[p].network_players[OwnSlot(p)]

C21_SwapState ==
  \A p \in Peers : SwapEffect(game[p]) /\ SwapThenSync(p) /\ SendsOwnRecord(p)

\* Between the input step and the periodic send of a frame the positions
\* of the own slot's network record stay as the input step left them.
C21_KeptUntilSend ==
  \A p \in Peers :
    Pc(p) \in {"restart", "check_traps"}
      => /\ game'[p].network_players[OwnSlot(p)].pos
              = game[p].network_players[OwnSlot(p)].pos
         /\ game'[p].network_players[OwnSlot(p)].shadow_pos
              = game[p].network_players[OwnSlot(p)].shadow_pos

\* C21: swap_with_shadow exchanges pos and shadow_pos of the own slot in
\* players and likewise in network_players and changes nothing else; two
\* swaps in a row restore the state; after a swap and the sync at the end
\* of the input step, the PlayerUpdate the frame sends for the own slot
\* carries the exchanged positions.
C21_SwapWithShadow == []C21_SwapState /\ [][C21_KeptUntilSend]_vars

\* A peer has swapped in its first frame and sent: the PlayerUpdate for
\* its own slot handed to the socket has the body where the shadow started
\* and the shadow where the body started.
C21_Witness ==
  \E p \in Peers :
    /\ Pc(p) = "frame"
    /\ game[p].players[OwnSlot(p)].pos = InitialShadow(OwnSlot(p))
    /\ \E d \in sent[p] :
         /\ d.msg.type = "PlayerUpdate" /\ d.msg.player.id = OwnSlot(p)
         /\ d.msg.player.pos = InitialShadow(OwnSlot(p))
         /\ d.msg.player.shadow_pos = InitialPos(OwnSlot(p))

\* ---- C22 -------------------------------------------------------------------
\* What the host's socket gets of a message: one datagram to the client's
\* address when the host knows it, nothing when not.
HandedToSocket(g, msg) ==
  IF g.client_addr = "none" THEN {}
  ELSE {[from |-> "host", to |-> g.client_addr, msg |-> msg]}

\* One call of update_inverse_timer on the host state g.
TimerEffect(g, dt) ==
  LET r == update_inverse_timer(g, dt)
      t == g.inverse_timer - dt
      c == g.inverse_cooldown - dt
  IN IF g.inverse_active
       THEN IF t <= 0
              THEN /\ r.g = [g EXCEPT !.inverse_active = FALSE,
                                      !.inverse_timer = t,
                                      !.inverse_cooldown = INVERSE_COOLDOWN]
                   /\ r.out = HandedToSocket(g, InverseControl(FALSE, 0))
              ELSE /\ r.g = [g EXCEPT !.inverse_timer = t]
                   /\ r.out = {}
       ELSE IF c <= 0
              THEN /\ r.g = [g EXCEPT !.inverse_active = TRUE,
                                      !.inverse_timer = INVERSE_DURATION,
                                      !.inverse_cooldown = INVERSE_COOLDOWN]
                   /\ r.out = HandedToSocket(g, InverseControl(TRUE, INVERSE_DURATION))
              ELSE /\ r.g = [g EXCEPT !.inverse_cooldown = c]
                   /\ r.out = {}

\* In every state update_inverse_timer, on the host's state as it is and as
\* the end of the drain leaves it, flips exactly at the thresholds, and at
\* a flip hands the InverseControl to the socket if the client's address
\* is known.
C22_TimerState ==
  \A dt \in FrameTimes :
    /\ TimerEffect(game[Host], dt)
    /\ TimerEffect(end_receive(game[Host], frame[Host].should_reset, dt,
                               MaxGameTime), dt)

\* The step is the host's call of update_inverse_timer (main.rs:441).
HostTicks == Pc(Host) = "receive" /\ frame'[Host].pc = "move"

\* The step is the host's receipt of a pending InverseControl, which the
\* handler applies on either peer (main.rs:169-172).
HostAppliesInverseControl ==
  /\ Pc(Host) = "receive" /\ frame'[Host].pc = "receive"
  /\ \E d \in PendingFor(Host) :
       /\ d.msg.type = "InverseControl"
       /\ InverseState(game'[Host]) = <<d.msg.active, d.msg.time_left>>

\* A step that changes the host's inverse_active is the frame's one call of
\* update_inverse_timer, a reset, or the receipt of an InverseControl.
C22_FlipsOnlyInTimer ==
  game'[Host].inverse_active # game[Host].inverse_active
    => HostTicks \/ ResetStep(Host) \/ HostAppliesInverseControl

C23_AddressState ==
  LET g == game[Host]
  IN /\ \A d \in sent[Host] : g.client_addr # "none" /\ d.to = g.client_addr
     /\ \A msg \in {GameReset, TrapEvent(0), InverseControl(TRUE, INVERSE_DURATION),
                    PlayerUpdate(g.network_players[0])} :
          send_message(g, msg) = HandedToSocket(g, msg)
     /\ \A d \in PendingFor(Host) :
          receive_one(g, d, FALSE).g.client_addr
            = IF g.client_addr = "none" THEN d.from ELSE g.client_addr

\* A step that changes the host's client_addr finds it absent and is the
\* receipt of a pending datagram, whose sender it becomes.
C23_AddressSetOnce ==
  game'[Host].client_addr # game[Host].client_addr
    => /\ game[Host].client_addr = "none"
       /\ Pc(Host) = "receive"
       /\ \E d \in PendingFor(Host) : game'[Host].client_addr = d.from

\* C23: the host's client_addr is absent until the host receives its first
\* datagram, is then that datagram's sender and never changes afterwards;
\* every datagram the host sends goes to that address, and before it is
\* learned the host sends nothing.
C23_HostAddressSetOnce == []C23_AddressState /\ [][C23_AddressSetOnce]_vars

\* The first datagram the host received came from the third address: the
\* host has finished a later frame with that address as its client and has
\* handed its periodic messages to the socket for it.
C23_Witness ==
  /\ Pc(Host) = "frame"
  /\ game[Host].client_addr = "stranger"
  /\ sent[Host] # {}
  /\ \A d \in sent[Host] : d.to = "stranger"
  /\ \E d \in inflight : d.from = PeerAddr(Client) /\ d.to = PeerAddr(Host)

\* ---- C24 -------------------------------------------------------------------
SomeScoreWins(g) == \E i \in Slots : g.players[i].score >= WIN_SCORE

SendsGameReset(out) == \E d \in out : d.msg = GameReset

\* The GameReset of peer g on its way: from the client to the host, from
\* the host to the client's address if it has one.
GameResetHanded(g) ==
  IF g.is_host THEN HandedToSocket(g, GameReset)
  ELSE {[from |-> "client", to |-> "host", msg |-> GameReset]}

\* In every state: the restart request resets and hands GameReset to the
\* socket iff R is pressed and some displayed score has reached WIN_SCORE,
\* and does nothing otherwise; no other part of the frame sends GameReset;
\* and a peer whose latest step sent GameReset is in the reset state, right
\* after the restart request.
C24_ResetGateState ==
  \A p \in Peers :
    LET g == game[p]
    IN /\ \A r_pressed \in BOOLEAN :
            restart_game(g, r_pressed)
              = IF r_pressed /\ SomeScoreWins(g)
                  THEN [g |-> reset_game(g), out |-> GameResetHanded(g)]
                  ELSE [g |-> g, out |-> {}]
       /\ \A dt \in FrameTimes \cup TrapSteps :
            /\ ~SendsGameReset(update_inverse_timer(g, dt).out)
            /\ ~SendsGameReset(check_traps(g, dt).out)
       /\ ~SendsGameReset(periodic_send(g).out)
       /\ SendsGameReset(sent[p])
            => Pc(p) = "check_traps" /\ g = reset_game(g)

\* The step is peer p's restart request granted (main.rs:464-467).
LocalRestart(p) ==
  /\ Pc(p) = "restart" /\ frame'[p].pc = "check_traps"
  /\ SomeScoreWins(game[p])
  /\ game'[p] = reset_game(game[p])

\* A step after which peer p's socket has a new GameReset is p's restart
\* request granted.
C24_GameResetOnlyByRestart ==
  \A p \in Peers :
    (SendsGameReset(sent'[p]) /\ sent'[p] # sent[p]) => LocalRestart(p)

\* C24 (amended): a peer resets locally only at its restart request, with R
\* pressed and some displayed score >= WIN_SCORE at that moment; in the same
\* step it hands GameReset to its socket, except a host that has not
\* learned its client's address, which resets and sends nothing; GameReset
\* is sent in no other situation.
C24_ResetOriginationGated ==
  []C24_ResetGateState /\ [][C24_GameResetOnlyByRestart]_vars

\* C24 (as claimed): as above, and the local reset and the GameReset send
\* always happen together.
C24_ResetAndSendTogether ==
  [][\A p \in Peers :
       /\ (SendsGameReset(sent'[p]) /\ sent'[p] # sent[p]) => LocalRestart(p)
       /\ LocalRestart(p) => SendsGameReset(sent'[p])]_vars

\* The host, knowing its client, has just granted the restart request: it
\* is in the reset state and GameReset is what the step handed to the
\* socket.
C24_Witness ==
  /\ Pc(Host) = "check_traps"
  /\ game[Host].client_addr = "client"
  /\ game[Host] = reset_game(game[Host])
  /\ sent[Host] = {[from |-> "host", to |-> "client", msg |-> GameReset]}

\* ---- C25: playfield bounds ----

InBox(v) ==
  /\ PLAYER_SIZE <= v.x /\ v.x <= SCREEN_WIDTH - PLAYER_SIZE
  /\ PLAYER_SIZE <= v.y /\ v.y <= SCREEN_HEIGHT - PLAYER_SIZE

RecordInBox(r) == InBox(r.pos) /\ InBox(r.shadow_pos)

\* C25: with both peers running this program and exchanging only each
\* other's datagrams (lost or duplicated at will), in every reachable state
\* every pos and shadow_pos of players and of network_players, on both peers
\* and for both slots, lies within
\* [PLAYER_SIZE, SCREEN_WIDTH - PLAYER_SIZE] x
\* [PLAYER_SIZE, SCREEN_HEIGHT - PLAYER_SIZE].
C25_PlayfieldBounds ==
  \A p \in Peers, i \in Slots :
    /\ RecordInBox(game[p].players[i])
    /\ RecordInBox(game[p].network_players[i])

\* The client's update_player has moved the host's shadow to the top edge,
\* the host has applied the PlayerUpdate that carries it, and the host's own
\* update_player has held the client's body at the right edge.
C25_Witness ==
  /\ game[Client].players[0].shadow_pos.y = PLAYER_SIZE
  /\ game[Host].network_players[0].shadow_pos.y = PLAYER_SIZE
  /\ game[Host].players[1].pos.x = SCREEN_WIDTH - PLAYER_SIZE
  /\ InitialPos(1).x + PLAYER_SPEED * frame[Host].dt > SCREEN_WIDTH - PLAYER_SIZE

====
